---- MODULE Spec2Model ----
(***************************************************************************)
(* Wallet ledger service: the transaction engine (process_topup,           *)
(* process_bonus, process_spend) over the wallet, transaction and ledger   *)
(* repositories, run by concurrent sessions against one store.             *)
(*                                                                         *)
(* The store variables (wallets, transactions, ledger) hold COMMITTED rows *)
(* only.  A session's uncommitted work lives in its locals until the step  *)
(* that commits it.  Row locks (SELECT ... FOR UPDATE) are in `held`.      *)
(* A commit or rollback of a session ends its store transaction and        *)
(* releases every row lock it holds; a commit also expires the session's   *)
(* loaded objects, which are re-read (without lock) from the snapshot of   *)
(* the next store transaction.                                             *)
(***************************************************************************)
EXTENDS Integers, Sequences, FiniteSets, TLC

VARIABLES
    wallets,        \* committed rows of table wallets; the index is Wallet.id
    transactions,   \* committed rows of table transactions, in insertion order
    ledger,        \* committed rows of table ledger_entries, in insertion order
    pc,             \* pc[s]: where session s stands in its process_* call
    req,            \* req[s]: the request session s is processing
    loc,            \* loc[s]: the local variables / loaded objects of session s
    held,           \* held[s]: ids of the wallet rows session s holds locked
    last            \* outcome of the call that ended in the step just taken, if any

vars == <<wallets, transactions, ledger, pc, req, loc, held, last>>

store == <<wallets, transactions, ledger>>

-----------------------------------------------------------------------------
(* Bounds and input sets *)

MaxAmount == 1

Sessions == {1, 2}

Keys == {"k1", "k2"}

Users == {1}

AssetCodes == {"COINS", "DOGE"}

Kinds == {"TOPUP", "BONUS", "SPEND"}

Amounts == 1..MaxAmount

\* What a client can put in a body: owner ids on both sides of zero (-1 is
\* the owner id of TREASURY) and amounts on both sides of zero.
UserIds == Users \cup {-1}

RawAmounts == {-1, 0} \cup Amounts

\* Bodies naming a known asset, with every key and amount; bodies naming an
\* unknown asset, which end at step 2 whatever their key and amount.
Payloads ==
    [kind : Kinds, key : Keys, user : UserIds, asset : {"COINS"}, amount : RawAmounts]
    \cup [kind : Kinds, key : {"k1"}, user : UserIds, asset : AssetCodes \ {"COINS"},
          amount : {-1, 0, 1}]

\* Fault variant: the amount field is declared ge=0.
TopupRequestNotNegative(p) == p.user > 0 /\ p.amount >= 0

\* Fault variant: the user_id field has no lower bound.
TopupRequestAnyUser(p) == p.amount > 0

\* class TopupRequest: user_id gt=0, amount gt=0 (the keys and asset codes of
\* the model all have a length within the declared limits).
TopupRequest(p) == p.user > 0 /\ p.amount > 0

\* class BonusRequest and class SpendRequest, which the service imports from
\* the schema module: each invocation carries an amount > 0, and user owner
\* ids are positive.
BonusRequest(p) == p.user > 0 /\ p.amount > 0

SpendRequest(p) == p.user > 0 /\ p.amount > 0

\* The body passes the schema of its endpoint.
RequestValid(p) ==
    CASE p.kind = "TOPUP" -> TopupRequest(p)
      [] p.kind = "BONUS" -> BonusRequest(p)
      [] p.kind = "SPEND" -> SpendRequest(p)

\* The requests that reach the engine.
Requests == {p \in Payloads : RequestValid(p)}

NoRequest == [kind |-> "", key |-> "", user |-> 0, asset |-> "", amount |-> 0]

-----------------------------------------------------------------------------
(* Constants of the program *)

SYSTEM_USER_IDS == [TREASURY |-> -1, MARKETING |-> -2, REVENUE |-> -3]

\* Fault variant: every code resolves to an asset type.
AnyAssetKnown(code) == 1

\* AssetType rows seeded for the service: code -> id; 0 stands for None.
AssetTypeId(code) ==
    CASE code = "COINS" -> 1
      [] code = "GEMS" -> 2
      [] OTHER -> 0

\* Fault variant: every kind takes the TREASURY wallet.
SystemWalletAlwaysTreasury(kind) == SYSTEM_USER_IDS.TREASURY

\* The system wallet each process_* function locks first.
SystemWalletOwner(kind) ==
    CASE kind = "TOPUP" -> SYSTEM_USER_IDS.TREASURY
      [] kind = "BONUS" -> SYSTEM_USER_IDS.MARKETING
      [] kind = "SPEND" -> SYSTEM_USER_IDS.REVENUE

-----------------------------------------------------------------------------
(* Rows *)

WalletRow(user, asset, balance, sys) ==
    [user_id |-> user, asset_type_id |-> asset, balance |-> balance,
     is_system_wallet |-> sys]

\* Transaction(...): status defaults to PENDING, the rest to NULL.
TransactionRow(tid, r) ==
    [transaction_id |-> tid, idempotency_key |-> r.key,
     transaction_type |-> r.kind, user_id |-> r.user,
     asset_type_id |-> AssetTypeId(r.asset), amount |-> r.amount,
     status |-> "PENDING", error_message |-> "", completed_at |-> FALSE]

LedgerRow(tid, wallet, type, amount, before, after) ==
    [transaction_id |-> tid, wallet_id |-> wallet, entry_type |-> type,
     amount |-> amount, balance_before |-> before, balance_after |-> after]

NoLocals == [sys |-> 0, usr |-> 0, sysBal |-> 0, usrBal |-> 0, tid |-> 0]

\* Whether stored transaction t has the body of request r.
SameBody(r, t) ==
    /\ t.transaction_type = r.kind
    /\ t.user_id = r.user
    /\ t.asset_type_id = AssetTypeId(r.asset)
    /\ t.amount = r.amount

\* What a call hands back: `via` is "replay" (step 1), "commit" (the call
\* completed), "recover" (the second lookup) or "raise"; tid is the
\* transaction_id of the row returned and `same` tells whether that row has
\* the body of the request; err is the exception raised.
NoOutcome == [via |-> "", tid |-> 0, same |-> FALSE, err |-> ""]

Returned(r, via, t) ==
    [via |-> via, tid |-> t.transaction_id, same |-> SameBody(r, t), err |-> ""]

Raised(tid, err) == [via |-> "raise", tid |-> tid, same |-> FALSE, err |-> err]

-----------------------------------------------------------------------------
(* Store constraints (app/models) *)

\* Fault variant: the table has no unique constraint on (user_id, asset_type_id).
NoUniqueConstraint(ws, user, asset) == TRUE

\* uq_user_asset: UniqueConstraint('user_id', 'asset_type_id').
UqUserAsset(ws, user, asset) ==
    \A i \in 1..Len(ws) : ~(ws[i].user_id = user /\ ws[i].asset_type_id = asset)

\* Fault variant: the column is not declared unique.
KeyNotUnique(txs, key) == TRUE

\* transactions.idempotency_key: unique=True.
UqIdempotencyKey(txs, key) ==
    \A i \in 1..Len(txs) : txs[i].idempotency_key # key

\* Fault variant: the table has no balance check.
NoBalanceCheck(w) == TRUE

\* Fault variant: the check also binds system wallets.
BalanceCheckOnEveryWallet(w) == w.balance >= 0

\* chk_balance_not_negative: 'balance >= 0 OR is_system_wallet = 1'.
ChkBalanceNotNegative(w) == w.balance >= 0 \/ w.is_system_wallet

-----------------------------------------------------------------------------
(* Repositories *)

Min(S) == CHOOSE x \in S : \A y \in S : x <= y

\* wallet_repo: the row of (user, asset), as .first() returns it; 0 for None.
GetWalletByUserAndAsset(ws, user, asset) ==
    LET hits == {i \in 1..Len(ws) :
                    ws[i].user_id = user /\ ws[i].asset_type_id = asset}
    IN  IF hits = {} THEN 0 ELSE Min(hits)

\* wallet_repo.get_wallet_with_lock as the service calls it, with the owner
\* and the asset: the row of (user, asset), selected FOR UPDATE; 0 for None.
\* (The repository module at hand declares it with a wallet id only.)
GetWalletWithLock(ws, user, asset) == GetWalletByUserAndAsset(ws, user, asset)

\* wallet_repo.create_wallet: a row with the default balance 0.
CreateWallet(ws, user, asset) == Append(ws, WalletRow(user, asset, 0, FALSE))

\* wallet_repo.update_wallet_balance.
UpdateWalletBalance(ws, id, new_balance) ==
    IF id \in 1..Len(ws) THEN [ws EXCEPT ![id].balance = new_balance] ELSE ws

\* str(uuid.uuid4()): a value no stored transaction carries.
Uuid4(txs) == Len(txs) + 1

\* Fault variant: the lookup only sees COMPLETED transactions.
GetCompletedByIdempotencyKey(txs, key) ==
    LET hits == {i \in 1..Len(txs) :
                    txs[i].idempotency_key = key /\ txs[i].status = "COMPLETED"}
    IN  IF hits = {} THEN 0 ELSE Min(hits)

\* Fault variant: the lookup ignores the key and returns the latest row.
GetLatestTransaction(txs, key) == Len(txs)

\* transaction_repo.get_by_idempotency_key: index of the row; 0 for None.
GetByIdempotencyKey(txs, key) ==
    LET hits == {i \in 1..Len(txs) : txs[i].idempotency_key = key}
    IN  IF hits = {} THEN 0 ELSE Min(hits)

\* transaction_repo.get_by_transaction_id: index of the row; 0 for None.
GetByTransactionId(txs, tid) ==
    LET hits == {i \in 1..Len(txs) : txs[i].transaction_id = tid}
    IN  IF hits = {} THEN 0 ELSE Min(hits)

\* Fault variant: the UPDATE is not filtered by transaction_id.
UpdateEveryTransaction(txs, tid, status, error_message) ==
    [i \in 1..Len(txs) |->
        [txs[i] EXCEPT
            !.status = status,
            !.completed_at = IF status = "COMPLETED" THEN TRUE ELSE @,
            !.error_message = IF error_message # "" THEN error_message ELSE @]]

\* transaction_repo.update_transaction_status; error_message "" stands for None.
UpdateTransactionStatus(txs, tid, status, error_message) ==
    LET i == GetByTransactionId(txs, tid)
    IN  IF i = 0 THEN txs
        ELSE [txs EXCEPT
                ![i].status = status,
                ![i].completed_at = IF status = "COMPLETED" THEN TRUE ELSE @,
                ![i].error_message = IF error_message # "" THEN error_message ELSE @]

\* ledger_repo.create_ledger_entry.
CreateLedgerEntry(l, tid, wallet, type, amount, before, after) ==
    Append(l, LedgerRow(tid, wallet, type, amount, before, after))

\* Fault variant: the query is not filtered by transaction_id.
GetEveryEntry(l, tid) == 1..Len(l)

\* ledger_repo.get_entries_by_transaction.
GetEntriesByTransaction(l, tid) ==
    {i \in 1..Len(l) : l[i].transaction_id = tid}

-----------------------------------------------------------------------------
(* Sessions *)

\* SELECT ... FOR UPDATE and UPDATE wait while another session holds the row.
LockedByOther(s, w) == \E t \in Sessions \ {s} : w \in held[t]

\* Fault variant: the call ends without ending its store transaction, and
\* keeps its row locks.
FinishHoldingLocks(s, outcome) ==
    /\ pc' = [pc EXCEPT ![s] = "idle"]
    /\ req' = [req EXCEPT ![s] = NoRequest]
    /\ loc' = [loc EXCEPT ![s] = NoLocals]
    /\ held' = held
    /\ last' = outcome

\* The call of session s ends: its store transaction is over, its locks
\* are released, and the caller sees `outcome`.
Finish(s, outcome) ==
    /\ pc' = [pc EXCEPT ![s] = "idle"]
    /\ req' = [req EXCEPT ![s] = NoRequest]
    /\ loc' = [loc EXCEPT ![s] = NoLocals]
    /\ held' = [held EXCEPT ![s] = {}]
    /\ last' = outcome

\* Fault variant: the handler rolls back and re-raises without marking the
\* transaction.
GenericHandlerSilent(s, error) ==
    /\ transactions' = transactions
    /\ Finish(s, Raised(loc[s].tid, error))

\* Fault variant: the handler records a FAILED transaction for a call that
\* had none.
GenericHandlerRecording(s, error) ==
    /\ transactions' =
          IF loc[s].tid = 0
          THEN Append(transactions,
                      [TransactionRow(Uuid4(transactions), req[s]) EXCEPT
                          !.status = "FAILED", !.error_message = error])
          ELSE UpdateTransactionStatus(transactions, loc[s].tid, "FAILED", error)
    /\ Finish(s, Raised(loc[s].tid, error))

\* except Exception: rollback, mark the transaction FAILED if its row is
\* there (transaction_id is None when it was never assigned), commit, raise.
GenericHandler(s, error) ==
    /\ transactions' =
          UpdateTransactionStatus(transactions, loc[s].tid, "FAILED", error)
    /\ Finish(s, Raised(loc[s].tid, error))

\* except IntegrityError: rollback; the second idempotency lookup follows.
IntegrityRollback(s) ==
    /\ pc' = [pc EXCEPT ![s] = "integrity"]
    /\ held' = [held EXCEPT ![s] = {}]
    /\ last' = NoOutcome
    /\ UNCHANGED req

-----------------------------------------------------------------------------
(* Initial state: the three system wallets of COINS, provisioned out of    *)
(* band, or none of them yet; the wallet of user 1 either exists, funded,  *)
(* or does not exist yet (it is then created lazily by the first movement  *)
(* that names it).                                                         *)

FundedBalance == MaxAmount

SystemWallets ==
    << WalletRow(SYSTEM_USER_IDS.TREASURY, AssetTypeId("COINS"), FundedBalance, TRUE),
       WalletRow(SYSTEM_USER_IDS.MARKETING, AssetTypeId("COINS"), FundedBalance, TRUE),
       WalletRow(SYSTEM_USER_IDS.REVENUE, AssetTypeId("COINS"), 0, TRUE) >>

\* The user wallet, when it exists from the start, covers one movement of
\* the largest amount, or two.
UserBalances == {FundedBalance, 2 * FundedBalance}

InitialWallets ==
    {SystemWallets, << >>}
    \cup {Append(ws, WalletRow(1, AssetTypeId("COINS"), b, FALSE)) :
             ws \in {SystemWallets, << >>}, b \in UserBalances}

Init ==
    /\ wallets \in InitialWallets
    /\ transactions = << >>
    /\ ledger = << >>
    /\ pc = [s \in Sessions |-> "idle"]
    /\ req = [s \in Sessions |-> NoRequest]
    /\ loc = [s \in Sessions |-> NoLocals]
    /\ held = [s \in Sessions |-> {}]
    /\ last = NoOutcome

-----------------------------------------------------------------------------
(* process_topup / process_bonus / process_spend, step by step *)

\* A caller submits request r in session s.
Call(s) ==
    \E r \in Requests :
        /\ pc[s] = "idle"
        /\ pc' = [pc EXCEPT ![s] = "lookup"]
        /\ req' = [req EXCEPT ![s] = r]
        /\ last' = NoOutcome
        /\ UNCHANGED <<wallets, transactions, ledger, loc, held>>

\* Step 1, key found: `return existing`.
IdempotentReturn(s) ==
    LET i == GetByIdempotencyKey(transactions, req[s].key) IN
    /\ pc[s] = "lookup"
    /\ i # 0
    /\ Finish(s, Returned(req[s], "replay", transactions[i]))
    /\ UNCHANGED <<wallets, transactions, ledger>>

\* Step 2, asset code unknown: ValueError, handled by `except Exception`.
AssetNotFound(s) ==
    /\ pc[s] = "lookup"
    /\ GetByIdempotencyKey(transactions, req[s].key) = 0
    /\ AssetTypeId(req[s].asset) = 0
    /\ GenericHandler(s, "ValueError: asset type not found")
    /\ UNCHANGED <<wallets, ledger>>

\* Steps 1 and 2 passed: the call goes on to lock its wallets.
Begin(s) ==
    /\ pc[s] = "lookup"
    /\ GetByIdempotencyKey(transactions, req[s].key) = 0
    /\ AssetTypeId(req[s].asset) # 0
    /\ pc' = [pc EXCEPT ![s] = "lock_sys"]
    /\ last' = NoOutcome
    /\ UNCHANGED <<wallets, transactions, ledger, req, loc, held>>

\* Step 3, first lock: the system wallet of the kind.
LockSystemWallet(s) ==
    LET r == req[s]
        w == GetWalletWithLock(wallets, SystemWalletOwner(r.kind),
                               AssetTypeId(r.asset))
    IN  /\ pc[s] = "lock_sys"
        /\ w # 0 => ~LockedByOther(s, w)
        /\ pc' = [pc EXCEPT ![s] = "lock_user"]
        /\ held' = [held EXCEPT ![s] = IF w = 0 THEN @ ELSE @ \cup {w}]
        /\ loc' = [loc EXCEPT ![s].sys = w,
                              ![s].sysBal = IF w = 0 THEN 0 ELSE wallets[w].balance]
        /\ UNCHANGED <<wallets, transactions, ledger, req>>
        /\ last' = NoOutcome

\* Fault variant: no kind checks a balance.
FundsUnchecked(kind, sysBal, usrBal, amount) == FALSE

\* Fault variant: the check also refuses an amount equal to the balance.
FundsStrict(kind, sysBal, usrBal, amount) ==
    CASE kind = "BONUS" -> sysBal <= amount
      [] kind = "SPEND" -> usrBal <= amount
      [] OTHER -> FALSE

\* The balance check of the kind: BONUS checks the marketing wallet, SPEND
\* the user wallet, TOPUP has none.
InsufficientFunds(kind, sysBal, usrBal, amount) ==
    CASE kind = "BONUS" -> sysBal < amount
      [] kind = "SPEND" -> usrBal < amount
      [] OTHER -> FALSE

\* What follows the locks without touching the store: the funds check, which
\* raises InsufficientFundsError or lets the call go on to create its
\* transaction.  l and h are the locals and locks of s at that point.
Validate(s, l, h) ==
    IF InsufficientFunds(req[s].kind, l.sysBal, l.usrBal, req[s].amount)
    THEN /\ GenericHandler(s, "InsufficientFundsError")
         /\ UNCHANGED <<wallets, ledger>>
    ELSE /\ pc' = [pc EXCEPT ![s] = "insert_tx"]
         /\ loc' = [loc EXCEPT ![s] = l]
         /\ held' = [held EXCEPT ![s] = h]
         /\ UNCHANGED <<wallets, transactions, ledger, req>>
         /\ last' = NoOutcome

\* Fault variant: the user wallet is created before the system wallet is
\* looked at.
LockUserWalletCreatingFirst(s) ==
    LET r == req[s]
        w == GetWalletWithLock(wallets, r.user, AssetTypeId(r.asset))
        l == [loc[s] EXCEPT !.usr = w,
                            !.usrBal = IF w = 0 THEN 0 ELSE wallets[w].balance]
        h == IF w = 0 THEN held[s] ELSE held[s] \cup {w}
    IN  /\ pc[s] = "lock_user"
        /\ w # 0 => ~LockedByOther(s, w)
        /\ IF w = 0
           THEN /\ pc' = [pc EXCEPT ![s] = "create_wallet"]
                /\ loc' = [loc EXCEPT ![s] = l]
                /\ held' = [held EXCEPT ![s] = h]
                /\ UNCHANGED <<wallets, transactions, ledger, req>>
                /\ last' = NoOutcome
           ELSE IF l.sys = 0
           THEN /\ GenericHandler(s, "ValueError: system wallet not found")
                /\ UNCHANGED <<wallets, ledger>>
           ELSE Validate(s, l, h)

\* Step 3, second lock: the user wallet; then `if not <system>_wallet: raise`,
\* `if not user_wallet: create`, and the funds check.
LockUserWallet(s) ==
    LET r == req[s]
        w == GetWalletWithLock(wallets, r.user, AssetTypeId(r.asset))
        l == [loc[s] EXCEPT !.usr = w,
                            !.usrBal = IF w = 0 THEN 0 ELSE wallets[w].balance]
        h == IF w = 0 THEN held[s] ELSE held[s] \cup {w}
    IN  /\ pc[s] = "lock_user"
        /\ w # 0 => ~LockedByOther(s, w)
        /\ IF l.sys = 0
           THEN /\ GenericHandler(s, "ValueError: system wallet not found")
                /\ UNCHANGED <<wallets, ledger>>
           ELSE IF w = 0
           THEN /\ pc' = [pc EXCEPT ![s] = "create_wallet"]
                /\ loc' = [loc EXCEPT ![s] = l]
                /\ held' = [held EXCEPT ![s] = h]
                /\ UNCHANGED <<wallets, transactions, ledger, req>>
                /\ last' = NoOutcome
           ELSE Validate(s, l, h)

\* `if not user_wallet`: wallet_repo.create_wallet adds the row and COMMITS,
\* which ends the store transaction of the call: the lock on the system
\* wallet is released and the loaded objects expire.  A concurrent insert of
\* the same (user, asset) violates uq_user_asset: IntegrityError.
CreateUserWallet(s) ==
    LET r == req[s] IN
    /\ pc[s] = "create_wallet"
    /\ IF UqUserAsset(wallets, r.user, AssetTypeId(r.asset))
       THEN /\ wallets' = CreateWallet(wallets, r.user, AssetTypeId(r.asset))
            /\ pc' = [pc EXCEPT ![s] = "refresh_wallet"]
            /\ loc' = [loc EXCEPT ![s].usr = Len(wallets) + 1]
            /\ held' = [held EXCEPT ![s] = {}]
            /\ UNCHANGED <<transactions, ledger, req>>
            /\ last' = NoOutcome
       ELSE /\ IntegrityRollback(s)
            /\ UNCHANGED <<wallets, transactions, ledger, loc>>

\* db.refresh(wallet) in create_wallet opens the next store transaction; the
\* expired system wallet is re-read from its snapshot when next used.
RefreshWallet(s) ==
    /\ pc[s] = "refresh_wallet"
    /\ pc' = [pc EXCEPT ![s] = "relock"]
    /\ loc' = [loc EXCEPT ![s].sysBal = wallets[loc[s].sys].balance,
                          ![s].usrBal = wallets[loc[s].usr].balance]
    /\ UNCHANGED <<wallets, transactions, ledger, req, held>>
    /\ last' = NoOutcome

\* "Re-lock the newly created wallet"; the loaded attributes are kept.
RelockUserWallet(s) ==
    LET w == loc[s].usr IN
    /\ pc[s] = "relock"
    /\ ~LockedByOther(s, w)
    /\ Validate(s, loc[s], held[s] \cup {w})

\* transaction_repo.create_transaction: uuid4(), add the PENDING row and
\* COMMIT: the row is durable and visible, the wallet locks are released and
\* the loaded objects expire.  A row with the key violates the unique
\* constraint on idempotency_key: IntegrityError.
CreateTransaction(s) ==
    LET r == req[s]
        transaction_id == Uuid4(transactions)
    IN  /\ pc[s] = "insert_tx"
        /\ IF UqIdempotencyKey(transactions, r.key)
           THEN /\ transactions' =
                      Append(transactions, TransactionRow(transaction_id, r))
                /\ pc' = [pc EXCEPT ![s] = "refresh_tx"]
                /\ loc' = [loc EXCEPT ![s].tid = transaction_id]
                /\ held' = [held EXCEPT ![s] = {}]
                /\ UNCHANGED <<wallets, ledger, req>>
                /\ last' = NoOutcome
           ELSE /\ IntegrityRollback(s)
                /\ UNCHANGED <<wallets, transactions, ledger, loc>>

\* db.refresh(transaction) opens the next store transaction; the balances
\* read at "Update balances" come from its snapshot, without lock.
RefreshTransaction(s) ==
    /\ pc[s] = "refresh_tx"
    /\ pc' = [pc EXCEPT ![s] = "post"]
    /\ loc' = [loc EXCEPT ![s].sysBal = wallets[loc[s].sys].balance,
                          ![s].usrBal = wallets[loc[s].usr].balance]
    /\ UNCHANGED <<wallets, transactions, ledger, req, held>>
    /\ last' = NoOutcome

\* Fault variant: every kind is posted system -> user.
SourceAlwaysSystem(kind) == TRUE

\* Money flows system -> user for TOPUP and BONUS, user -> system for SPEND.
SourceIsSystem(kind) == kind \in {"TOPUP", "BONUS"}

\* Fault variant: the debit is added.
DebitAdded(before, amount) == before + amount

DebitedBalance(before, amount) == before - amount

\* Fault variant: the credit is not added.
CreditLost(before, amount) == before

CreditedBalance(before, amount) == before + amount

\* "Update balances": what the call posts, from the balances it has read.
Posting(s) ==
    LET r == req[s]
        l == loc[s]
        src_before == IF SourceIsSystem(r.kind) THEN l.sysBal ELSE l.usrBal
        dst_before == IF SourceIsSystem(r.kind) THEN l.usrBal ELSE l.sysBal
    IN  [src |-> IF SourceIsSystem(r.kind) THEN l.sys ELSE l.usr,
         dst |-> IF SourceIsSystem(r.kind) THEN l.usr ELSE l.sys,
         src_before |-> src_before,
         dst_before |-> dst_before,
         src_after |-> DebitedBalance(src_before, r.amount),
         dst_after |-> CreditedBalance(dst_before, r.amount)]

\* The balance the call writes to wallet w, one of its two wallets.
PostedBalance(s, w) ==
    IF w = Posting(s).src THEN Posting(s).src_after ELSE Posting(s).dst_after

\* Fault variant: the UPDATEs are emitted in descending key order.
FlushDescending(a, b) == IF a < b THEN <<b, a>> ELSE <<a, b>>

\* The flush emits the UPDATEs of the two wallets in primary-key order.
FlushOrder(a, b) == IF a < b THEN <<a, b>> ELSE <<b, a>>

\* The first flush (in create_ledger_entry), first UPDATE: it waits for the
\* row's lock, takes it, and is checked by chk_balance_not_negative.  A
\* failed check raises OperationalError (pymysql), handled by
\* `except Exception`.
FlushFirstUpdate(s) ==
    LET w == FlushOrder(loc[s].sys, loc[s].usr)[1] IN
    /\ pc[s] = "post"
    /\ ~LockedByOther(s, w)
    /\ IF ChkBalanceNotNegative([wallets[w] EXCEPT !.balance = PostedBalance(s, w)])
       THEN /\ pc' = [pc EXCEPT ![s] = "flush"]
            /\ held' = [held EXCEPT ![s] = @ \cup {w}]
            /\ last' = NoOutcome
            /\ UNCHANGED <<wallets, transactions, ledger, req, loc>>
       ELSE /\ GenericHandler(s, "OperationalError")
            /\ UNCHANGED <<wallets, ledger>>

\* The second UPDATE of the flush, which waits for its row's lock and is
\* checked likewise; then the two ledger rows, COMPLETED, and the commit.
PostAndCommit(s) ==
    LET r == req[s]
        l == loc[s]
        p == Posting(s)
        w == FlushOrder(l.sys, l.usr)[2]
        updated == UpdateWalletBalance(
                       UpdateWalletBalance(wallets, p.src, p.src_after),
                       p.dst, p.dst_after)
    IN  /\ pc[s] = "flush"
        /\ ~LockedByOther(s, w)
        /\ IF ChkBalanceNotNegative(updated[w])
           THEN /\ wallets' = updated
                /\ ledger' =
                      CreateLedgerEntry(
                          CreateLedgerEntry(ledger, l.tid, p.src, "DEBIT",
                                            -r.amount, p.src_before, p.src_after),
                          l.tid, p.dst, "CREDIT", r.amount, p.dst_before, p.dst_after)
                /\ transactions' =
                      UpdateTransactionStatus(transactions, l.tid, "COMPLETED", "")
                /\ Finish(s, Returned(r, "commit",
                       transactions'[GetByTransactionId(transactions', l.tid)]))
           ELSE /\ GenericHandler(s, "OperationalError")
                /\ UNCHANGED <<wallets, ledger>>

\* Fault variant: when the second lookup finds nothing, the handler records
\* a FAILED transaction under the key before raising.
IntegrityHandlerRecording(s) ==
    LET i == GetByIdempotencyKey(transactions, req[s].key) IN
    /\ pc[s] = "integrity"
    /\ IF i # 0
       THEN /\ Finish(s, Returned(req[s], "recover", transactions[i]))
            /\ transactions' = transactions
       ELSE /\ Finish(s, Raised(0, "DuplicateTransactionError"))
            /\ transactions' =
                  Append(transactions,
                         [TransactionRow(Uuid4(transactions), req[s]) EXCEPT
                             !.status = "FAILED",
                             !.error_message = "DuplicateTransactionError"])
    /\ UNCHANGED <<wallets, ledger>>

\* except IntegrityError, after the rollback: the second idempotency lookup
\* returns the row of the key, or DuplicateTransactionError is raised.
IntegrityHandler(s) ==
    LET i == GetByIdempotencyKey(transactions, req[s].key) IN
    /\ pc[s] = "integrity"
    /\ IF i # 0
       THEN Finish(s, Returned(req[s], "recover", transactions[i]))
       ELSE Finish(s, Raised(0, "DuplicateTransactionError"))
    /\ UNCHANGED <<wallets, transactions, ledger>>

\* The wallet row whose lock the next statement of session s asks for; 0
\* when it asks for none (or for a row that does not exist).
WaitsFor(s) ==
    CASE pc[s] = "lock_sys" ->
            GetWalletWithLock(wallets, SystemWalletOwner(req[s].kind),
                              AssetTypeId(req[s].asset))
      [] pc[s] = "lock_user" ->
            GetWalletWithLock(wallets, req[s].user, AssetTypeId(req[s].asset))
      [] pc[s] = "relock" -> loc[s].usr
      [] pc[s] = "post" -> FlushOrder(loc[s].sys, loc[s].usr)[1]
      [] pc[s] = "flush" -> FlushOrder(loc[s].sys, loc[s].usr)[2]
      [] OTHER -> 0

-----------------------------------------------------------------------------

Next ==
    \E s \in Sessions :
        \/ Call(s)
        \/ IdempotentReturn(s)
        \/ AssetNotFound(s)
        \/ Begin(s)
        \/ LockSystemWallet(s)
        \/ LockUserWallet(s)
        \/ CreateUserWallet(s)
        \/ RefreshWallet(s)
        \/ RelockUserWallet(s)
        \/ CreateTransaction(s)
        \/ RefreshTransaction(s)
        \/ FlushFirstUpdate(s)
        \/ PostAndCommit(s)
        \/ IntegrityHandler(s)

Spec == Init /\ [][Next]_vars

-----------------------------------------------------------------------------
(* transaction_repo.update_transaction_status on its own: the repository    *)
(* function applied, with either status and every error message, to the    *)
(* rows of two freshly created transactions.  In this specification `last`  *)
(* records the call just made: via is the status passed, tid the            *)
(* transaction_id, err the error_message ("" for None or the empty string). *)

\* "Update transaction status to COMPLETED or FAILED."
Statuses == {"COMPLETED", "FAILED"}

Messages == {"", "e1", "e2"}

\* The transaction ids passed: those of the two rows, and one that no row has.
TransactionIds == {1, 2, 3}

SetStatusInit ==
    /\ transactions \in
          {<<TransactionRow(1, r), TransactionRow(2, q)>> :
              r \in {x \in Requests : x.key = "k1" /\ x.asset = "COINS"},
              q \in {x \in Requests : x.key = "k2" /\ x.asset = "COINS"}}
    /\ wallets = SystemWallets
    /\ ledger = << >>
    /\ pc = [s \in Sessions |-> "idle"]
    /\ req = [s \in Sessions |-> NoRequest]
    /\ loc = [s \in Sessions |-> NoLocals]
    /\ held = [s \in Sessions |-> {}]
    /\ last = NoOutcome

SetStatus ==
    \E tid \in TransactionIds, status \in Statuses, error_message \in Messages :
        /\ transactions' =
              UpdateTransactionStatus(transactions, tid, status, error_message)
        /\ last' = [via |-> status, tid |-> tid, same |-> FALSE, err |-> error_message]
        /\ UNCHANGED <<wallets, ledger, pc, req, loc, held>>

SetStatusSpec == SetStatusInit /\ [][SetStatus]_vars

-----------------------------------------------------------------------------
(* The HTTP boundary (api/v1/transactions): each endpoint calls its         *)
(* process_* function and maps what it raises to a status code through its  *)
(* chain of except clauses.  InsufficientFundsError and                     *)
(* DuplicateTransactionError derive from WalletException(Exception), not    *)
(* from ValueError; OperationalError is a SQLAlchemyError.                  *)

\* `except ValueError`: the errors the engine raises as ValueError.
IsValueError(err) ==
    err \in {"ValueError: asset type not found", "ValueError: system wallet not found"}

\* POST /topup.
Topup(outcome) ==
    IF outcome.via # "raise" THEN 200
    ELSE IF outcome.err = "DuplicateTransactionError" THEN 409
    ELSE IF IsValueError(outcome.err) THEN 400
    ELSE 500

\* Fault variant: the endpoint has no clause for InsufficientFundsError.
BonusWithoutFundsClause(outcome) == Topup(outcome)

\* POST /bonus.
Bonus(outcome) ==
    IF outcome.via # "raise" THEN 200
    ELSE IF outcome.err = "DuplicateTransactionError" THEN 409
    ELSE IF outcome.err = "InsufficientFundsError" THEN 400
    ELSE IF IsValueError(outcome.err) THEN 400
    ELSE 500

\* POST /spend, as the specification tables it (the module at hand has the
\* /topup and /bonus routes only): conflicts 409, domain errors 400,
\* internal 500.
Spend(outcome) ==
    IF outcome.via # "raise" THEN 200
    ELSE IF outcome.err = "DuplicateTransactionError" THEN 409
    ELSE IF outcome.err = "InsufficientFundsError" THEN 400
    ELSE IF IsValueError(outcome.err) THEN 400
    ELSE 500

\* The status code the endpoint of the kind answers with.
StatusCode(kind, outcome) ==
    CASE kind = "TOPUP" -> Topup(outcome)
      [] kind = "BONUS" -> Bonus(outcome)
      [] kind = "SPEND" -> Spend(outcome)

-----------------------------------------------------------------------------
(* Vocabulary of the properties *)

RECURSIVE SumBalances(_)
SumBalances(ws) ==
    IF ws = << >> THEN 0 ELSE Head(ws).balance + SumBalances(Tail(ws))

\* Session s takes a step / ends its call in this step.
StepOf(s) == pc'[s] # pc[s]

Ends(s) == pc[s] # "idle" /\ pc'[s] = "idle"

\* The parties of a movement as the specification tables them:
\* TOPUP treasury -> user, BONUS marketing -> user, SPEND user -> revenue.
SourceOwner(kind, user) ==
    CASE kind = "TOPUP" -> -1
      [] kind = "BONUS" -> -2
      [] kind = "SPEND" -> user

DestinationOwner(kind, user) ==
    CASE kind = "TOPUP" -> user
      [] kind = "BONUS" -> user
      [] kind = "SPEND" -> -3

WalletIds(ws, owner, asset) ==
    {i \in 1..Len(ws) : ws[i].user_id = owner /\ ws[i].asset_type_id = asset}

Completed == {i \in 1..Len(transactions) : transactions[i].status = "COMPLETED"}

EntriesOf(tid) == {e \in 1..Len(ledger) : ledger[e].transaction_id = tid}

-----------------------------------------------------------------------------
(* C1: conservation of value.  No step changes the sum of the balances of  *)
(* the wallets of the asset: a completed transaction changes it by 0, a    *)
(* failed or replayed call changes no balance.                             *)
C1_Conservation == [][SumBalances(wallets') = SumBalances(wallets)]_vars

(* C2: double entry.  Every COMPLETED transaction has exactly two ledger   *)
(* entries, a DEBIT of -A on its source wallet and a CREDIT of +A on its   *)
(* destination wallet, A being its amount.                                 *)
C2_DoubleEntry ==
    \A i \in Completed :
        LET t == transactions[i]
            E == EntriesOf(t.transaction_id)
        IN  /\ Cardinality(E) = 2
            /\ \E d, c \in E :
                  /\ ledger[d].entry_type = "DEBIT"
                  /\ ledger[d].amount = -t.amount
                  /\ ledger[d].wallet_id \in
                        WalletIds(wallets, SourceOwner(t.transaction_type, t.user_id),
                                  t.asset_type_id)
                  /\ ledger[c].entry_type = "CREDIT"
                  /\ ledger[c].amount = t.amount
                  /\ ledger[c].wallet_id \in
                        WalletIds(wallets, DestinationOwner(t.transaction_type, t.user_id),
                                  t.asset_type_id)
                  /\ ledger[d].amount + ledger[c].amount = 0

\* A SPEND has completed: its DEBIT lies on the user wallet.
C2_Witness ==
    \E i \in Completed :
        /\ transactions[i].transaction_type = "SPEND"
        /\ Cardinality(EntriesOf(transactions[i].transaction_id)) = 2

(* C3: no wallet with is_system_wallet = false has a negative balance in   *)
(* any committed state.                                                    *)
C3_UserWalletsNonNegative ==
    \A i \in 1..Len(wallets) :
        ~wallets[i].is_system_wallet => wallets[i].balance >= 0

\* A debit that would have driven the user wallet below zero was refused by
\* the store: its transaction is FAILED and the wallet stands at 0.
C3_Witness ==
    /\ \E i \in 1..Len(transactions) :
          /\ transactions[i].transaction_type = "SPEND"
          /\ transactions[i].status = "FAILED"
    /\ \E i \in 1..Len(wallets) :
          ~wallets[i].is_system_wallet /\ wallets[i].balance = 0

(* C4: no double spend.  When two spends with distinct keys are the only   *)
(* transactions and both are COMPLETED, their amounts together do not      *)
(* exceed the balance B the user wallet had before them (the largest       *)
(* balance_before their debits record, no credit having occurred).         *)
C4_NoDoubleSpend ==
    \A i, j \in Completed :
        ( /\ i # j
          /\ Len(transactions) = 2
          /\ transactions[i].transaction_type = "SPEND"
          /\ transactions[j].transaction_type = "SPEND" )
        => \E e \in 1..Len(ledger) :
              /\ ledger[e].entry_type = "DEBIT"
              /\ transactions[i].amount + transactions[j].amount
                    <= ledger[e].balance_before

(* C5: idempotence law.  A call whose key belongs to a COMPLETED            *)
(* transaction with the same body returns that transaction's id at step 1, *)
(* changes no wallet, transaction or ledger row, and the key has exactly   *)
(* one transaction row.                                                    *)
C5_IdempotentReplay ==
    [][\A s \in Sessions : \A i \in Completed :
          ( /\ pc[s] = "lookup"
            /\ StepOf(s)
            /\ transactions[i].idempotency_key = req[s].key
            /\ SameBody(req[s], transactions[i]) )
          => /\ last'.via = "replay"
             /\ last'.tid = transactions[i].transaction_id
             /\ store' = store
             /\ Cardinality({j \in 1..Len(transactions) :
                   transactions[j].idempotency_key = req[s].key}) = 1]_vars

\* A replay with the same body has just returned a COMPLETED transaction.
C5_Witness ==
    /\ last.via = "replay"
    /\ last.same
    /\ \E i \in Completed : transactions[i].transaction_id = last.tid

(* C6: the duplicate-key race is recovered locally.  A call that passed    *)
(* step 1 and ends while a transaction with its key and body, created by   *)
(* another call, is stored returns a transaction and raises nothing; and   *)
(* it does not raise DuplicateTransactionError while another call runs the *)
(* same request.                                                           *)
C6_DuplicateRaceRecovered ==
    [][\A s \in Sessions :
          (Ends(s) /\ pc[s] # "lookup" /\ loc[s].tid = 0)
          => /\ (\E i \in 1..Len(transactions) :
                    /\ transactions[i].idempotency_key = req[s].key
                    /\ SameBody(req[s], transactions[i]))
                => last'.via # "raise"
             /\ (\E t \in Sessions \ {s} :
                    req[t] = req[s] /\ pc[t] \notin {"idle", "lookup"})
                => last'.err # "DuplicateTransactionError"]_vars

(* C7: at most one effect per key.  No two transactions share an           *)
(* idempotency_key or a transaction_id, and the ledger holds at most one   *)
(* DEBIT and one CREDIT for the transactions of one key.                   *)
C7_OneEffectPerKey ==
    /\ \A i, j \in 1..Len(transactions) :
          i # j => /\ transactions[i].idempotency_key # transactions[j].idempotency_key
                   /\ transactions[i].transaction_id # transactions[j].transaction_id
    /\ \A k \in Keys : \A type \in {"DEBIT", "CREDIT"} :
          Cardinality({e \in 1..Len(ledger) :
              /\ ledger[e].entry_type = type
              /\ \E i \in 1..Len(transactions) :
                    /\ transactions[i].idempotency_key = k
                    /\ transactions[i].transaction_id = ledger[e].transaction_id}) <= 1

\* A call that lost the race for its key has just been handed the stored
\* transaction by the second lookup.
C7_Witness ==
    /\ last.via = "recover"
    /\ \E i \in Completed : transactions[i].transaction_id = last.tid

(* C8: every ledger entry has balance_after = balance_before + signed      *)
(* amount.                                                                 *)
C8_LedgerArithmetic ==
    \A e \in 1..Len(ledger) :
        ledger[e].balance_after = ledger[e].balance_before + ledger[e].amount

\* Entries of two transactions are in the ledger, debits among them.
C8_Witness ==
    /\ Len(ledger) = 4
    /\ \E e \in 1..Len(ledger) : ledger[e].entry_type = "DEBIT" /\ ledger[e].amount < 0

(* C9: parties by kind.  The step that completes a movement of amount A    *)
(* lowers the balance of its source wallet by A and raises the balance of  *)
(* its destination wallet by A (TOPUP treasury -> user, BONUS marketing -> *)
(* user, SPEND user -> revenue), and the transaction returned is COMPLETED *)
(* with the kind, user, asset and amount of the request.                   *)
C9_PartiesByKind ==
    [][\A s \in Sessions :
          (StepOf(s) /\ last'.via = "commit")
          => LET r == req[s]
                 a == AssetTypeId(r.asset)
             IN  /\ \E src \in WalletIds(wallets, SourceOwner(r.kind, r.user), a) :
                       wallets'[src].balance = wallets[src].balance - r.amount
                 /\ \E dst \in WalletIds(wallets, DestinationOwner(r.kind, r.user), a) :
                       wallets'[dst].balance = wallets[dst].balance + r.amount
                 /\ last'.same
                 /\ \E i \in 1..Len(transactions') :
                       /\ transactions'[i].transaction_id = last'.tid
                       /\ transactions'[i].status = "COMPLETED"]_vars

(* C10: a spend or bonus that fails the funds check leaves the store as it *)
(* was.  The check is failed before the call has a transaction, and no     *)
(* step of a call that has no transaction yet changes a transaction row, a *)
(* ledger row or the balance of a wallet: the key is not consumed.         *)
C10_FailedCheckLeavesStore ==
    [][\A s \in Sessions :
          /\ (StepOf(s) /\ last'.err = "InsufficientFundsError")
             => loc[s].tid = 0 /\ pc[s] \in {"lock_user", "relock"}
          /\ (StepOf(s) /\ loc[s].tid = 0 /\ pc[s] # "insert_tx")
             => /\ transactions' = transactions
                /\ ledger' = ledger
                /\ \A i \in 1..Len(wallets) : wallets'[i] = wallets[i]]_vars

\* A spend or bonus has just failed the funds check.
C10_Witness == last.err = "InsufficientFundsError"

(* C11: funds threshold.  With the lock on its source wallet held, a spend  *)
(* (source: the user wallet) or a bonus (source: the MARKETING wallet)      *)
(* fails the funds check with InsufficientFunds if and only if the balance  *)
(* of the source is strictly less than the amount; and a movement that      *)
(* completes with an amount equal to the source balance leaves the source   *)
(* at 0.                                                                    *)
C11_FundsThreshold ==
    [][\A s \in Sessions :
          LET r == req[s]
              S == WalletIds(wallets, SourceOwner(r.kind, r.user), AssetTypeId(r.asset))
          IN  /\ ( /\ StepOf(s)
                   /\ pc[s] \in {"lock_user", "relock"}
                   /\ r.kind \in {"BONUS", "SPEND"}
                   /\ pc'[s] # "create_wallet"
                   /\ loc[s].sys # 0
                   /\ r.kind = "BONUS" => loc[s].sys \in held[s] )
                 => \A w \in S :
                       (last'.err = "InsufficientFundsError")
                          <=> (wallets[w].balance < r.amount)
              /\ ( /\ StepOf(s)
                   /\ last'.via = "commit"
                   /\ r.kind \in {"BONUS", "SPEND"} )
                 => \A w \in S :
                       wallets[w].balance = r.amount => wallets'[w].balance = 0]_vars

(* C12: top_up has no funds check.  With the TREASURY wallet of the asset   *)
(* present, no step of a top_up fails on a balance (neither                 *)
(* InsufficientFunds nor a refused balance write), whatever the TREASURY    *)
(* balance is, and a top_up that has written its balances completes, also   *)
(* when that leaves the TREASURY balance below zero.                        *)
C12_TopupHasNoFundsCheck ==
    [][\A s \in Sessions :
          (StepOf(s) /\ req[s].kind = "TOPUP" /\ loc[s].sys # 0)
          => /\ last'.err \notin {"InsufficientFundsError", "OperationalError"}
             /\ pc[s] \in {"post", "flush"} => pc'[s] = "flush" \/ last'.via = "commit"
             /\ last'.via = "commit"
                => \E i \in 1..Len(transactions') :
                      /\ transactions'[i].transaction_id = last'.tid
                      /\ transactions'[i].status = "COMPLETED"]_vars

\* A top_up has just completed and the TREASURY balance is below zero.
C12_Witness ==
    /\ last.via = "commit"
    /\ \E i \in Completed :
          /\ transactions[i].transaction_id = last.tid
          /\ transactions[i].transaction_type = "TOPUP"
    /\ \E w \in 1..Len(wallets) :
          wallets[w].user_id = SYSTEM_USER_IDS.TREASURY /\ wallets[w].balance < 0

(* C13: unknown asset.  A call naming an asset code that does not exist     *)
(* ends at its first step without creating a wallet, a transaction or a     *)
(* ledger entry and without changing a balance; when its key has no         *)
(* transaction (no replay), it fails with ValueError.                       *)
C13_UnknownAsset ==
    [][\A s \in Sessions :
          (StepOf(s) /\ pc[s] = "lookup" /\ req[s].asset # "COINS")
          => /\ pc'[s] = "idle"
             /\ store' = store
             /\ (\A i \in 1..Len(transactions) :
                    transactions[i].idempotency_key # req[s].key)
                => last'.via = "raise" /\ last'.err = "ValueError: asset type not found"]_vars

\* A call has just failed because its asset is unknown.
C13_Witness == last.err = "ValueError: asset type not found"

(* C14: missing system wallet.  When the system wallet the kind requires   *)
(* (TREASURY for top_up, MARKETING for bonus, REVENUE for spend) does not   *)
(* exist for the asset, the call fails with the system-wallet-missing       *)
(* error once it has tried its locks, and none of its steps creates a       *)
(* wallet, writes a transaction or a ledger entry, or changes a balance.    *)
C14_MissingSystemWallet ==
    [][\A s \in Sessions :
          LET r == req[s]
              required == IF r.kind = "SPEND" THEN DestinationOwner(r.kind, r.user)
                          ELSE SourceOwner(r.kind, r.user)
          IN  ( /\ StepOf(s)
                /\ pc[s] \notin {"idle", "lookup"}
                /\ WalletIds(wallets, required, AssetTypeId(r.asset)) = {} )
              => /\ store' = store
                 /\ pc[s] = "lock_sys" => pc'[s] = "lock_user"
                 /\ pc[s] # "lock_sys"
                    => /\ pc[s] = "lock_user"
                       /\ last'.via = "raise"
                       /\ last'.err = "ValueError: system wallet not found"]_vars

\* A call has just failed for want of its system wallet, and the user has
\* no wallet.
C14_Witness ==
    /\ last.err = "ValueError: system wallet not found"
    /\ wallets = << >>

(* C15: lazy wallet creation.  A top_up or bonus of amount A for a user who *)
(* has no wallet of the asset goes on to create it: exactly one wallet      *)
(* (user, asset) then exists, non-system, with balance 0; and when the      *)
(* movement completes as the first one on that wallet, the wallet is still  *)
(* the only one of (user, asset), its balance is A, and the CREDIT entry    *)
(* records balance_before 0 and balance_after A.                            *)
C15_LazyWalletCreation ==
    [][\A s \in Sessions :
          LET r == req[s]
              a == AssetTypeId(r.asset)
              U == WalletIds(wallets, r.user, a)
              U2 == WalletIds(wallets', r.user, a)
          IN  (StepOf(s) /\ r.kind \in {"TOPUP", "BONUS"})
              => /\ (pc[s] = "lock_user" /\ loc[s].sys # 0 /\ U = {})
                    => pc'[s] = "create_wallet"
                 /\ (pc[s] = "create_wallet" /\ U = {})
                    => /\ pc'[s] = "refresh_wallet"
                       /\ Cardinality(U2) = 1
                       /\ \A w \in U2 : /\ wallets'[w].balance = 0
                                        /\ ~wallets'[w].is_system_wallet
                 /\ ( /\ last'.via = "commit"
                      /\ \A w \in U : /\ wallets[w].balance = 0
                                      /\ \A e \in 1..Len(ledger) : ledger[e].wallet_id # w )
                    => /\ Cardinality(U2) = 1
                       /\ \A w \in U2 :
                             /\ wallets'[w].balance = r.amount
                             /\ ~wallets'[w].is_system_wallet
                             /\ \E e \in 1..Len(ledger') :
                                   /\ ledger'[e].transaction_id = last'.tid
                                   /\ ledger'[e].wallet_id = w
                                   /\ ledger'[e].entry_type = "CREDIT"
                                   /\ ledger'[e].balance_before = 0
                                   /\ ledger'[e].balance_after = r.amount]_vars

\* The first movement on a lazily created wallet has just completed: its
\* CREDIT starts from 0.
C15_Witness ==
    /\ last.via = "commit"
    /\ Len(ledger) = 2
    /\ \E e \in 1..Len(ledger) :
          /\ ledger[e].entry_type = "CREDIT"
          /\ ledger[e].balance_before = 0
          /\ ~wallets[ledger[e].wallet_id].is_system_wallet
          /\ wallets[ledger[e].wallet_id].balance = ledger[e].balance_after

(* C16: spend without a wallet.  A spend for a user who has no wallet of   *)
(* the asset creates the wallet with balance 0 and then, the wallet never   *)
(* having been moved, fails with InsufficientFunds whatever its amount;     *)
(* none of these steps changes a balance or writes a transaction or a       *)
(* ledger entry.                                                            *)
C16_SpendWithoutWallet ==
    [][\A s \in Sessions :
          LET r == req[s]
              U == WalletIds(wallets, r.user, AssetTypeId(r.asset))
          IN  (StepOf(s) /\ r.kind = "SPEND")
              => /\ (pc[s] = "lock_user" /\ loc[s].sys # 0 /\ U = {})
                    => pc'[s] = "create_wallet" /\ store' = store
                 /\ (pc[s] = "create_wallet" /\ U = {})
                    => /\ pc'[s] = "refresh_wallet"
                       /\ wallets' = Append(wallets, wallets'[Len(wallets')])
                       /\ wallets'[Len(wallets')].balance = 0
                       /\ transactions' = transactions
                       /\ ledger' = ledger
                 /\ pc[s] = "refresh_wallet"
                    => pc'[s] = "relock" /\ store' = store
                 /\ (pc[s] = "relock"
                       /\ \A e \in 1..Len(ledger) : ledger[e].wallet_id # loc[s].usr)
                    => /\ last'.via = "raise"
                       /\ last'.err = "InsufficientFundsError"
                       /\ store' = store]_vars

\* A spend has just failed the funds check on the wallet it created: the
\* wallet is there with balance 0 and nothing else has been written.
C16_Witness ==
    /\ last.err = "InsufficientFundsError"
    /\ transactions = << >>
    /\ ledger = << >>
    /\ \E w \in 1..Len(wallets) :
          ~wallets[w].is_system_wallet /\ wallets[w].balance = 0

BalanceBeforeDebits(w) ==
    LET E == {e \in 1..Len(ledger) : ledger[e].wallet_id = w}
    IN  IF E = {} THEN wallets[w].balance
        ELSE ledger[CHOOSE e \in E :
                       \A f \in E : ledger[f].balance_before <= ledger[e].balance_before]
                 .balance_before

RECURSIVE SumAmounts(_)
SumAmounts(S) ==
    IF S = {} THEN 0
    ELSE LET i == CHOOSE x \in S : TRUE
         IN  transactions[i].amount + SumAmounts(S \ {i})

(* C18: no spurious failure under contention.  When only spends, with       *)
(* distinct keys, have been submitted on an existing user wallet and their  *)
(* amounts together are at most the balance it had, no spend fails: none    *)
(* raises InsufficientFunds, none has its balance write refused.            *)
C18_NoSpuriousFailure ==
    [][\A s \in Sessions :
          LET r == req[s]
              U == WalletIds(wallets, r.user, AssetTypeId(r.asset))
              rows == 1..Len(transactions)
              own == {i \in rows : transactions[i].idempotency_key = r.key}
              others == {t \in Sessions \ {s} :
                           /\ pc[t] \notin {"idle", "lookup"}
                           /\ \A i \in rows :
                                 transactions[i].idempotency_key # req[t].key}
          IN  ( /\ StepOf(s)
                /\ r.kind = "SPEND"
                /\ last'.err \in {"InsufficientFundsError", "OperationalError"}
                /\ \A i \in rows : transactions[i].transaction_type = "SPEND"
                /\ \A t \in Sessions \ {s} :
                      pc[t] \notin {"idle", "lookup"}
                      => req[t].kind = "SPEND" /\ req[t].key # r.key
                /\ loc[s].tid = 0 => own = {} )
              => \A w \in U :
                    r.amount + SumAmounts(rows \ own)
                       + (IF others = {} THEN 0
                          ELSE req[CHOOSE t \in others : TRUE].amount)
                    > BalanceBeforeDebits(w)]_vars

\* Two spends that overlapped (their debits record the same balance_before)
\* have both completed, and that balance covered both.
C18_Witness ==
    /\ Len(transactions) = 2
    /\ Completed = {1, 2}
    /\ \A i \in Completed : transactions[i].transaction_type = "SPEND"
    /\ \E d, e \in 1..Len(ledger) :
          /\ d # e
          /\ ledger[d].entry_type = "DEBIT"
          /\ ledger[e].entry_type = "DEBIT"
          /\ ledger[d].balance_before = ledger[e].balance_before
          /\ transactions[1].amount + transactions[2].amount <= ledger[d].balance_before

(* C19: no lost update across kinds.  When a top_up and a spend with        *)
(* distinct keys on one existing user wallet, whose balance covered the     *)
(* spend, are the only transactions and both are COMPLETED, the balance of  *)
(* the wallet is its initial balance (the balance_before of the first entry *)
(* committed on it) plus the top-up amount minus the spend amount.          *)
C19_NoLostUpdate ==
    \A i, j \in Completed :
        ( /\ Len(transactions) = 2
          /\ transactions[i].transaction_type = "TOPUP"
          /\ transactions[j].transaction_type = "SPEND" )
        => \A w \in WalletIds(wallets, transactions[j].user_id,
                              transactions[j].asset_type_id) :
              LET E == {e \in 1..Len(ledger) : ledger[e].wallet_id = w}
                  first == CHOOSE e \in E : \A f \in E : e <= f
              IN  ledger[first].balance_before >= transactions[j].amount
                  => wallets[w].balance =
                        ledger[first].balance_before
                           + transactions[i].amount - transactions[j].amount

(* C20: locks held to the commit.  From the acquisition of its wallet locks *)
(* until its final commit or rollback a movement holds the row locks of its *)
(* two wallets: a call that has locked its system wallet holds that lock    *)
(* while it goes on, and a call that is past its locks and has not yet      *)
(* committed or rolled back holds both.                                     *)
C20_LocksHeldToCommit ==
    \A s \in Sessions :
        /\ pc[s] \in {"create_wallet", "refresh_wallet", "relock"}
           => loc[s].sys \in held[s]
        /\ pc[s] \in {"insert_tx", "refresh_tx", "post", "flush"}
           => {loc[s].sys, loc[s].usr} \subseteq held[s]

(* C21: atomic commit.  In every committed state a movement is there whole  *)
(* or not at all: a stored transaction row (other than the durable record   *)
(* of a failure, status FAILED) is COMPLETED and has its two ledger         *)
(* entries; no transaction row of a movement is stored without them.        *)
C21_AtomicCommit ==
    \A i \in 1..Len(transactions) :
        transactions[i].status # "FAILED"
        => /\ transactions[i].status = "COMPLETED"
           /\ Cardinality(EntriesOf(transactions[i].transaction_id)) = 2

C24_DuplicateOnlyForKeyRace ==
    [][\A s \in Sessions :
          (Ends(s) /\ last'.err = "DuplicateTransactionError")
          => \/ \E i \in 1..Len(transactions) :
                   transactions[i].idempotency_key = req[s].key
             \/ \E t \in Sessions \ {s} :
                   pc[t] # "idle" /\ req[t].key = req[s].key]_vars

(* C25: lazy-creation race.  For top_up and bonus calls on one (user,       *)
(* asset): the call whose insert of the wallet comes second (the loser)     *)
(* fails on the uniqueness of (user, asset), writes nothing and leaves no   *)
(* transaction under its key, and exactly one wallet (user, asset) exists;  *)
(* the winner goes on, and a winning top_up raises no error in any later    *)
(* step; a call that finds the wallet present (such as the loser's retry)   *)
(* locks that wallet and never inserts another, and when it completes its   *)
(* CREDIT entry lies on that one wallet, whose balance it raises by the     *)
(* amount when no other movement changed it since the call read it.         *)
C25_LazyCreationRace ==
    [][\A s \in Sessions :
          LET r == req[s]
              a == AssetTypeId(r.asset)
              U == WalletIds(wallets, r.user, a)
              U2 == WalletIds(wallets', r.user, a)
          IN  (StepOf(s) /\ r.kind \in {"TOPUP", "BONUS"})
              => /\ (pc[s] = "create_wallet" /\ U # {})
                    => /\ pc'[s] = "integrity"
                       /\ store' = store
                       /\ Cardinality(U) = 1
                 /\ (pc[s] = "integrity" /\ loc[s].usr = 0)
                    => /\ pc'[s] = "idle"
                       /\ store' = store
                       /\ Cardinality(U) = 1
                       /\ (\A i \in 1..Len(transactions) :
                              transactions[i].idempotency_key # r.key)
                          => last'.via = "raise"
                 /\ (pc[s] = "create_wallet" /\ U = {})
                    => pc'[s] = "refresh_wallet" /\ Cardinality(U2) = 1
                 /\ ( /\ r.kind = "TOPUP"
                      /\ pc[s] \in {"refresh_wallet", "relock", "insert_tx",
                                    "refresh_tx", "post", "flush"} )
                    => last'.via # "raise"
                 /\ (pc[s] = "lock_user" /\ U # {} /\ loc[s].sys # 0)
                    => /\ pc'[s] # "create_wallet"
                       /\ wallets' = wallets
                       /\ pc'[s] # "idle" => loc'[s].usr \in U
                 /\ (last'.via = "commit" /\ U # {})
                    => /\ U2 = U
                       /\ Cardinality(U) = 1
                       /\ \A w \in U :
                             /\ \E e \in 1..Len(ledger') :
                                   /\ ledger'[e].transaction_id = last'.tid
                                   /\ ledger'[e].entry_type = "CREDIT"
                                   /\ ledger'[e].wallet_id = w
                             /\ wallets[w].balance = loc[s].usrBal
                                => wallets'[w].balance = wallets[w].balance + r.amount]_vars

\* The race has been lost and surfaced: the loser has just raised, the
\* winner's movement is COMPLETED with its credit on the one wallet of the
\* user, and no transaction carries the loser's key.
C25_Witness ==
    /\ last.err = "DuplicateTransactionError"
    /\ Len(transactions) = 1
    /\ Completed = {1}
    /\ Cardinality(WalletIds(wallets, 1, AssetTypeId("COINS"))) = 1
    /\ \E e \in 1..Len(ledger) :
          /\ ledger[e].entry_type = "CREDIT"
          /\ ledger[e].balance_before = 0
          /\ ledger[e].wallet_id \in WalletIds(wallets, 1, AssetTypeId("COINS"))

(* C26: the idempotency short-circuit is unconditional.  A top_up, bonus or *)
(* spend whose key is the key of a stored transaction returns that          *)
(* transaction at its first step, whatever the status of the transaction    *)
(* and whatever the kind, user, asset and amount of the request; it holds   *)
(* and takes no wallet lock and changes no wallet, transaction or ledger    *)
(* row.                                                                     *)
C26_ShortCircuitUnconditional ==
    [][\A s \in Sessions : \A i \in 1..Len(transactions) :
          ( /\ pc[s] = "lookup"
            /\ StepOf(s)
            /\ transactions[i].idempotency_key = req[s].key )
          => /\ pc'[s] = "idle"
             /\ last'.via = "replay"
             /\ last'.tid = transactions[i].transaction_id
             /\ store' = store
             /\ held[s] = {}
             /\ held' = held]_vars

\* A call has just been handed a transaction that is still PENDING and whose
\* body differs from the request.
C26_Witness ==
    /\ last.via = "replay"
    /\ ~last.same
    /\ \E i \in 1..Len(transactions) :
          /\ transactions[i].transaction_id = last.tid
          /\ transactions[i].status = "PENDING"

(* C27: set_status.  update_transaction_status(transaction_id, status,      *)
(* error_message) sets the status, sets completed_at if and only if the     *)
(* status is COMPLETED (it is left as it was otherwise), and sets           *)
(* error_message, to the message supplied, if and only if the status is     *)
(* FAILED (it is left as it was otherwise), whatever the message: also a    *)
(* message supplied with COMPLETED, and an empty or absent message supplied *)
(* with FAILED.                                                             *)
C27_SetStatus ==
    [][\A i \in 1..Len(transactions) :
          transactions[i].transaction_id = last'.tid
          => /\ transactions'[i].status = last'.via
             /\ transactions'[i].completed_at =
                   (IF last'.via = "COMPLETED" THEN TRUE
                    ELSE transactions[i].completed_at)
             /\ transactions'[i].error_message =
                   (IF last'.via = "FAILED" THEN last'.err
                    ELSE transactions[i].error_message)]_vars

(* C28: wallet uniqueness.  In every committed state there is at most one   *)
(* wallet for each (owner id, asset-type id) pair, under any interleaving   *)
(* of movements that create wallets lazily; and no step removes a wallet or *)
(* changes the owner, the asset or the kind of one.                         *)
C28_WalletUniqueness ==
    /\ [](\A i, j \in 1..Len(wallets) :
             ( /\ wallets[i].user_id = wallets[j].user_id
               /\ wallets[i].asset_type_id = wallets[j].asset_type_id )
             => i = j)
    /\ [][/\ Len(wallets') >= Len(wallets)
          /\ \A i \in 1..Len(wallets) :
                /\ wallets'[i].user_id = wallets[i].user_id
                /\ wallets'[i].asset_type_id = wallets[i].asset_type_id
                /\ wallets'[i].is_system_wallet = wallets[i].is_system_wallet]_vars

\* Two calls have inserted wallet (user, asset): the second insert was
\* refused and its call stands in the integrity handler; one wallet exists.
C28_Witness ==
    \E s \in Sessions :
        /\ pc[s] = "integrity"
        /\ loc[s].usr = 0
        /\ Cardinality(WalletIds(wallets, req[s].user, AssetTypeId(req[s].asset))) = 1

C30_BoundaryStatus ==
    [][\A s \in Sessions :
          Ends(s)
          => StatusCode(req[s].kind, last') =
                (IF last'.via # "raise" THEN 200
                 ELSE IF last'.err = "DuplicateTransactionError" THEN 409
                 ELSE IF last'.err \in {"ValueError: asset type not found",
                                        "ValueError: system wallet not found",
                                        "InsufficientFundsError"} THEN 400
                 ELSE 500)]_vars

\* A bonus has just been refused for want of funds: the MARKETING wallet,
\* drained by a completed bonus, stands at 0.
C30_Witness ==
    /\ last.err = "InsufficientFundsError"
    /\ \E i \in Completed : transactions[i].transaction_type = "BONUS"
    /\ \E w \in 1..Len(wallets) :
          wallets[w].user_id = SYSTEM_USER_IDS.MARKETING /\ wallets[w].balance = 0

-----------------------------------------------------------------------------
(* The schema in front of the engine *)

\* validation_exception_handler: a body the schema of its endpoint refuses is
\* answered before the endpoint function, and so the engine, is entered.
ValidationExceptionHandler(s) ==
    /\ pc[s] = "idle"
    /\ Payloads \ Requests # {}
    /\ last' = Raised(0, "RequestValidationError")
    /\ UNCHANGED <<wallets, transactions, ledger, pc, req, loc, held>>

\* The status code a call is answered with.
Respond(kind, outcome) ==
    IF outcome.err = "RequestValidationError" THEN 422 ELSE StatusCode(kind, outcome)

BoundaryNext == Next \/ \E s \in Sessions : ValidationExceptionHandler(s)

BoundarySpec == Init /\ [][BoundaryNext]_vars

\* C31: a request whose amount is zero or negative never reaches the engine:
\* it is answered 422 and changes no row and no call in progress, every call
\* in the engine carries an amount above zero, and so does every transaction
\* stored.
C31_AmountPositive ==
    /\ [](/\ \A i \in 1..Len(transactions) : transactions[i].amount > 0
          /\ \A s \in Sessions : pc[s] # "idle" => req[s].amount > 0)
    /\ [][last' # last /\ last'.err = "RequestValidationError"
            => /\ \A k \in Kinds : Respond(k, last') = 422
               /\ UNCHANGED <<store, pc, req, loc, held>>]_vars

\* A body was refused while a transaction of an accepted one is stored.
C31_Witness ==
    /\ last.err = "RequestValidationError"
    /\ \E i \in 1..Len(transactions) : transactions[i].status = "COMPLETED"

-----------------------------------------------------------------------------
\* C32: a movement that fails leaves the set of wallets unchanged.  A call
\* that created its user wallet lazily and then fails its check of funds (it
\* is at the re-lock of the wallet it created) leaves no wallet of its user
\* and asset behind.
C32_FailedCallLeavesNoWallet ==
    [][\A s \in Sessions :
          Ends(s) /\ pc[s] = "relock" /\ last'.via = "raise"
          => WalletIds(wallets', req[s].user, AssetTypeId(req[s].asset)) = {}]_vars

-----------------------------------------------------------------------------
\* The ledger entries on wallet w, in the order of their commit.
EntriesOn(w) == {e \in 1..Len(ledger) : ledger[e].wallet_id = w}

RECURSIVE SumEntries(_)
SumEntries(S) ==
    IF S = {} THEN 0
    ELSE LET e == CHOOSE x \in S : TRUE
         IN  ledger[e].amount + SumEntries(S \ {e})

\* C33: ledger chain continuity.  On every wallet, each ledger entry starts
\* from the balance the entry committed before it on that wallet ended with,
\* and the balance of the wallet is the balance_after of its latest entry.
C33_LedgerChain ==
    \A w \in 1..Len(wallets) :
        LET E == EntriesOn(w) IN
        /\ \A e, f \in E :
              (e < f /\ \A g \in E : ~(e < g /\ g < f))
              => ledger[f].balance_before = ledger[e].balance_after
        /\ E # {}
           => wallets[w].balance
                 = ledger[CHOOSE e \in E : \A f \in E : f <= e].balance_after

\* C34: the ledger reconciles with the balances.  The balance of every
\* wallet that has entries is the balance it had before the first of them
\* plus the sum of the signed amounts of all of them.
C34_LedgerReconciles ==
    \A w \in 1..Len(wallets) :
        LET E == EntriesOn(w) IN
        E # {}
        => wallets[w].balance
              = ledger[CHOOSE e \in E : \A f \in E : e <= f].balance_before
                   + SumEntries(E)

-----------------------------------------------------------------------------
\* C35: the MARKETING wallet stays funded.  Through bonus calls, concurrent
\* ones with distinct keys included, the balance of the MARKETING wallet
\* never goes below zero.
C35_MarketingNotNegative ==
    \A w \in WalletIds(wallets, SystemWalletOwner("BONUS"), AssetTypeId("COINS")) :
        wallets[w].balance >= 0

-----------------------------------------------------------------------------
\* C36: the parties of a movement.  The wallet debited and the wallet
\* credited by a COMPLETED transaction are two distinct wallets of the asset
\* of the transaction; exactly one of them is a system wallet, and the other
\* is the wallet of a user, whose owner id is positive.
C36_PartiesDistinct ==
    \A i \in Completed :
        \A d, c \in EntriesOf(transactions[i].transaction_id) :
            (ledger[d].entry_type = "DEBIT" /\ ledger[c].entry_type = "CREDIT")
            => LET src == wallets[ledger[d].wallet_id]
                   dst == wallets[ledger[c].wallet_id]
               IN  /\ ledger[d].wallet_id # ledger[c].wallet_id
                   /\ src.asset_type_id = transactions[i].asset_type_id
                   /\ dst.asset_type_id = transactions[i].asset_type_id
                   /\ src.is_system_wallet # dst.is_system_wallet
                   /\ \A w \in {src, dst} :
                         IF w.is_system_wallet
                         THEN \E k \in DOMAIN SYSTEM_USER_IDS :
                                 SYSTEM_USER_IDS[k] = w.user_id
                         ELSE w.user_id > 0 /\ w.user_id = transactions[i].user_id

\* A movement towards the user and a movement from the user are COMPLETED.
C36_Witness ==
    \E i, j \in Completed :
        /\ transactions[i].transaction_type = "SPEND"
        /\ transactions[j].transaction_type \in {"TOPUP", "BONUS"}
        /\ Cardinality(EntriesOf(transactions[i].transaction_id)) = 2
        /\ Cardinality(EntriesOf(transactions[j].transaction_id)) = 2

-----------------------------------------------------------------------------
(* Movements next to wallets of other users and of other assets *)

\* The system wallets of GEMS, the COINS wallets of users 1 and 2; user 1
\* has no GEMS wallet yet, user 2 has one.
FrameWallets ==
    SystemWallets
    \o << WalletRow(SYSTEM_USER_IDS.TREASURY, AssetTypeId("GEMS"), FundedBalance, TRUE),
          WalletRow(SYSTEM_USER_IDS.MARKETING, AssetTypeId("GEMS"), FundedBalance, TRUE),
          WalletRow(SYSTEM_USER_IDS.REVENUE, AssetTypeId("GEMS"), 0, TRUE),
          WalletRow(1, AssetTypeId("COINS"), FundedBalance, FALSE),
          WalletRow(2, AssetTypeId("COINS"), FundedBalance, FALSE),
          WalletRow(2, AssetTypeId("GEMS"), FundedBalance, FALSE) >>

\* Requests of user 1 on COINS under the first key; under the second key
\* requests of user 2 on COINS and topups of user 1 on GEMS.
FrameRequests ==
    {p \in [kind : Kinds, key : {"k1"}, user : {1}, asset : {"COINS"}, amount : Amounts]
           \cup [kind : Kinds, key : {"k2"}, user : {2}, asset : {"COINS"}, amount : {1}]
           \cup [kind : {"TOPUP"}, key : {"k2"}, user : {1}, asset : {"GEMS"},
                 amount : {1}] :
        RequestValid(p)}

FrameInit ==
    /\ wallets = FrameWallets
    /\ transactions = << >>
    /\ ledger = << >>
    /\ pc = [s \in Sessions |-> "idle"]
    /\ req = [s \in Sessions |-> NoRequest]
    /\ loc = [s \in Sessions |-> NoLocals]
    /\ held = [s \in Sessions |-> {}]
    /\ last = NoOutcome

FrameCall(s) ==
    \E r \in FrameRequests :
        /\ pc[s] = "idle"
        /\ pc' = [pc EXCEPT ![s] = "lookup"]
        /\ req' = [req EXCEPT ![s] = r]
        /\ last' = NoOutcome
        /\ UNCHANGED <<wallets, transactions, ledger, loc, held>>

FrameNext ==
    \E s \in Sessions :
        \/ FrameCall(s)
        \/ IdempotentReturn(s)
        \/ Begin(s)
        \/ LockSystemWallet(s)
        \/ LockUserWallet(s)
        \/ CreateUserWallet(s)
        \/ RefreshWallet(s)
        \/ RelockUserWallet(s)
        \/ CreateTransaction(s)
        \/ RefreshTransaction(s)
        \/ FlushFirstUpdate(s)
        \/ PostAndCommit(s)
        \/ IntegrityHandler(s)

FrameSpec == FrameInit /\ [][FrameNext]_vars

\* C37: the frame of a movement.  A step of a call for user u, asset a and a
\* kind removes no wallet and changes no wallet other than the wallet (u, a)
\* and the system wallet of the kind for a; it changes and removes no
\* transaction other than the call's own, and no ledger entry.
C37_Frame ==
    [][\A s \in Sessions :
          StepOf(s)
          => LET r == IF pc[s] = "idle" THEN req'[s] ELSE req[s]
                 a == AssetTypeId(r.asset)
                 own == WalletIds(wallets, SourceOwner(r.kind, r.user), a)
                           \cup WalletIds(wallets, DestinationOwner(r.kind, r.user), a)
             IN  /\ \/ wallets' = wallets
                    \/ /\ Len(wallets') >= Len(wallets)
                       /\ \A w \in 1..Len(wallets) :
                             w \notin own => wallets'[w] = wallets[w]
                       /\ \A w \in (1..Len(wallets')) \ (1..Len(wallets)) :
                             /\ wallets'[w].user_id = r.user
                             /\ wallets'[w].asset_type_id = a
                 /\ \/ transactions' = transactions
                    \/ /\ Len(transactions') >= Len(transactions)
                       /\ \A i \in 1..Len(transactions) :
                             transactions[i].transaction_id # loc[s].tid
                             => transactions'[i] = transactions[i]
                 /\ \/ ledger' = ledger
                    \/ /\ Len(ledger') >= Len(ledger)
                       /\ \A e \in 1..Len(ledger) : ledger'[e] = ledger[e]]_vars

\* A movement of user 1 on GEMS committed after one on COINS; the wallets
\* of user 2 are as they were.
C37_Witness ==
    /\ \E i, j \in Completed :
          /\ transactions[i].asset_type_id = AssetTypeId("COINS")
          /\ transactions[j].asset_type_id = AssetTypeId("GEMS")
          /\ transactions[j].user_id = 1
    /\ \A w \in WalletIds(wallets, 2, AssetTypeId("COINS")) :
          wallets[w].balance = FundedBalance

-----------------------------------------------------------------------------
(* Calls under a fair scheduler *)

\* The steps of the call in progress in session s.
Proceed(s) ==
    \/ IdempotentReturn(s)
    \/ AssetNotFound(s)
    \/ Begin(s)
    \/ LockSystemWallet(s)
    \/ LockUserWallet(s)
    \/ CreateUserWallet(s)
    \/ RefreshWallet(s)
    \/ RelockUserWallet(s)
    \/ CreateTransaction(s)
    \/ RefreshTransaction(s)
    \/ FlushFirstUpdate(s)
    \/ PostAndCommit(s)
    \/ IntegrityHandler(s)

\* Requests of the largest amount: whether a call ends does not depend on
\* how much it moves, only on whether the funds cover it.
FairRequests == {r \in Requests : r.asset = "COINS" => r.amount = MaxAmount}

FairCall(s) ==
    \E r \in FairRequests :
        /\ pc[s] = "idle"
        /\ pc' = [pc EXCEPT ![s] = "lookup"]
        /\ req' = [req EXCEPT ![s] = r]
        /\ last' = NoOutcome
        /\ UNCHANGED <<wallets, transactions, ledger, loc, held>>

FairNext == \E s \in Sessions : FairCall(s) \/ Proceed(s)

\* The system wallets are seeded; the user wallet is created by the first
\* movement towards it.
FairInit == Init /\ wallets = SystemWallets

\* A call that can proceed is scheduled, and a call that waits for a row
\* lock gets it once the lock has been released often enough: the store
\* queues the lock requests on a row.  No caller is obliged to call.
FairSpec ==
    FairInit /\ [][FairNext]_vars /\ \A s \in Sessions : SF_vars(Proceed(s))

\* C38: every call ends and releases its locks.  Under fair scheduling a
\* call that has started eventually returns or raises, and a session with
\* no call in progress holds no wallet lock.
C38_CallsTerminate ==
    /\ \A s \in Sessions : (pc[s] # "idle") ~> (pc[s] = "idle")
    /\ [](\A s \in Sessions : pc[s] = "idle" => held[s] = {})

\* After a call has completed, a call waits for a row lock that the other
\* call in progress holds.
C38_Witness ==
    \E s \in Sessions : \E t \in Sessions \ {s} :
        /\ Completed # {}
        /\ pc[t] \in {"lock_sys", "lock_user", "relock"}
        /\ WaitsFor(t) # 0
        /\ WaitsFor(t) \in held[s]

-----------------------------------------------------------------------------
\* C39: no PENDING transaction is visible.  Every transaction row of the
\* committed store is COMPLETED or FAILED.
C39_NoPendingVisible ==
    \A i \in 1..Len(transactions) : transactions[i].status \in {"COMPLETED", "FAILED"}

-----------------------------------------------------------------------------
(* wallet_service.get_or_create_wallet, called concurrently *)

\* The (user, asset) pairs wallets are asked for.
WalletUsers == {1, 2}

WalletAssets == {"COINS", "GEMS"}

\* The system wallets, with or without a funded COINS wallet of user 1.
WalletInit ==
    /\ wallets \in {SystemWallets}
                      \cup {Append(SystemWallets, WalletRow(1, AssetTypeId("COINS"), b, FALSE)) :
                               b \in UserBalances}
    /\ transactions = << >>
    /\ ledger = << >>
    /\ pc = [s \in Sessions |-> "idle"]
    /\ req = [s \in Sessions |-> NoRequest]
    /\ loc = [s \in Sessions |-> NoLocals]
    /\ held = [s \in Sessions |-> {}]
    /\ last = [via |-> "", wallet |-> 0]

\* get_or_create_wallet(db, user_id, asset_type_id) is called in session s.
GetOrCreateWallet(s) ==
    \E u \in WalletUsers, a \in WalletAssets :
        /\ pc[s] = "idle"
        /\ pc' = [pc EXCEPT ![s] = "get"]
        /\ req' = [req EXCEPT ![s] = [NoRequest EXCEPT !.user = u, !.asset = a]]
        /\ last' = [via |-> "", wallet |-> 0]
        /\ UNCHANGED <<wallets, transactions, ledger, loc, held>>

\* `wallet = get_wallet_by_user_and_asset(...)`; `if wallet: return wallet`.
GetExisting(s) ==
    LET w == GetWalletByUserAndAsset(wallets, req[s].user, AssetTypeId(req[s].asset)) IN
    /\ pc[s] = "get"
    /\ IF w # 0
       THEN Finish(s, [via |-> "found", wallet |-> w])
       ELSE /\ pc' = [pc EXCEPT ![s] = "create"]
            /\ last' = [via |-> "", wallet |-> 0]
            /\ UNCHANGED <<req, loc, held>>
    /\ UNCHANGED <<wallets, transactions, ledger>>

\* `return wallet_repo.create_wallet(...)`: add and commit; a row of the
\* same (user, asset) committed since the lookup violates uq_user_asset and
\* the commit raises IntegrityError.
CreateOrConflict(s) ==
    LET r == req[s] IN
    /\ pc[s] = "create"
    /\ IF UqUserAsset(wallets, r.user, AssetTypeId(r.asset))
       THEN /\ wallets' = CreateWallet(wallets, r.user, AssetTypeId(r.asset))
            /\ Finish(s, [via |-> "created", wallet |-> Len(wallets) + 1])
       ELSE /\ pc' = [pc EXCEPT ![s] = "conflict"]
            /\ last' = [via |-> "", wallet |-> 0]
            /\ UNCHANGED <<wallets, req, loc, held>>
    /\ UNCHANGED <<transactions, ledger>>

\* Fault variant: the IntegrityError is not handled, the caller gets no
\* wallet.
ConflictRaised(s) ==
    /\ pc[s] = "conflict"
    /\ Finish(s, [via |-> "raise", wallet |-> 0])
    /\ UNCHANGED <<wallets, transactions, ledger>>

\* `except IntegrityError: db.rollback()` and the second lookup, which reads
\* in a new store transaction and so sees the committed row.
FetchAfterConflict(s) ==
    /\ pc[s] = "conflict"
    /\ Finish(s, [via |-> "fetched",
                  wallet |-> GetWalletByUserAndAsset(wallets, req[s].user,
                                                     AssetTypeId(req[s].asset))])
    /\ UNCHANGED <<wallets, transactions, ledger>>

WalletNext ==
    \E s \in Sessions :
        \/ GetOrCreateWallet(s)
        \/ GetExisting(s)
        \/ CreateOrConflict(s)
        \/ FetchAfterConflict(s)

WalletSpec == WalletInit /\ [][WalletNext]_vars

\* C40: get_or_create_wallet is race-safe and idempotent.  Every call
\* returns a wallet, the one of its user and asset; afterwards exactly one
\* wallet of that user and asset exists, so all calls return the same one;
\* and no step of a call changes or removes a wallet that exists, so an
\* existing wallet is returned with its balance unchanged.
C40_GetOrCreate ==
    [][\A s \in Sessions :
          /\ Ends(s)
             => LET ids == WalletIds(wallets', req[s].user, AssetTypeId(req[s].asset))
                IN  /\ last'.wallet # 0
                    /\ ids = {last'.wallet}
                    /\ WalletIds(wallets, req[s].user, AssetTypeId(req[s].asset)) # {}
                       => wallets' = wallets
          /\ StepOf(s)
             => /\ Len(wallets') >= Len(wallets)
                /\ \A w \in 1..Len(wallets) : wallets'[w] = wallets[w]]_vars

\* A call lost the race for the creation and returns the wallet the other
\* call created.
C40_Witness ==
    /\ last.via = "fetched"
    /\ last.wallet > Len(SystemWallets)
    /\ wallets[last.wallet].balance = 0

====
